---------------------------- MODULE Spec2Model ----------------------------
(***************************************************************************)
(* Client of the article question-answering backend: the settings shared   *)
(* by the two panels (SettingsProvider), the chat panel (AIChat) with its  *)
(* two streamed exchanges (streamChat, streamSuggestions), the article     *)
(* panel (ArticleProcess) and the error classifier (extractErrorMessage).  *)
(*                                                                         *)
(* A JavaScript string is modelled as a text: a sequence of lexemes.  A    *)
(* lexeme is a record [k, v]: white space, a bare word, a JSON punctuation *)
(* mark, a JSON string literal, a JSON number or a JSON literal name.      *)
(* Concatenation of strings is \o, the empty string is << >>.              *)
(***************************************************************************)
EXTENDS Integers, Sequences, FiniteSets, TLC

VARIABLES
    \* SettingsProvider
    articleUrl, articleTitle, integrator, userQuery, model,
    \* AIChat: its state, and whether the component is mounted
    conversations, chatLoading, suggestionsLoading, mounted,
    \* the exchange of each kind: handler position, request, stream state
    ex,
    \* history: per card the fate of the stream of the submit that appended it
    outcome,
    \* ArticleProcess
    loading, error, proc, cacheReq,
    \* extractErrorMessage applied to one failure value
    xErr, xOut

vars == <<articleUrl, articleTitle, integrator, userQuery, model,
          conversations, chatLoading, suggestionsLoading, mounted, ex, outcome,
          loading, error, proc, cacheReq, xErr, xOut>>

settingsVars == <<articleUrl, articleTitle, integrator, userQuery, model>>
chatVars == <<conversations, chatLoading, suggestionsLoading, mounted, ex, outcome>>
processVars == <<loading, error, proc, cacheReq>>
extractVars == <<xErr, xOut>>

(***************************************************************************)
(* Bounds of the model.                                                    *)
(***************************************************************************)
MaxCards == 2
MaxFragments == 2

(***************************************************************************)
(* Texts.                                                                  *)
(***************************************************************************)
Ws == [k |-> "ws", v |-> " "]
W(s) == [k |-> "word", v |-> s]
P(s) == [k |-> "punct", v |-> s]
S(s) == [k |-> "str", v |-> s]
N(s) == [k |-> "num", v |-> s]
L(s) == [k |-> "lit", v |-> s]

EmptyText == << >>

SeqsUpTo(A, n) == UNION { [1..m -> A] : m \in 0..n }

\* String.prototype.trim: leading and trailing white space removed
RECURSIVE trimStart(_)
trimStart(s) ==
    IF s = << >> THEN s
    ELSE IF Head(s).k = "ws" THEN trimStart(Tail(s)) ELSE s

RECURSIVE trimEnd(_)
trimEnd(s) ==
    IF s = << >> THEN s
    ELSE IF s[Len(s)].k = "ws" THEN trimEnd(SubSeq(s, 1, Len(s) - 1)) ELSE s

\* no trim at all
trim_Identity(s) == s

\* a trim that leaves the trailing white space
trim_StartOnly(s) == trimStart(s)

trim(s) == trimEnd(trimStart(s))

(***************************************************************************)
(* Inputs.                                                                 *)
(***************************************************************************)
Integrators == {"openai", "together"}
Kinds == {"chat", "suggestions"}

\* what the user can type into the chat input
Queries == {EmptyText, <<Ws>>, <<W("q")>>, <<Ws, W("q"), Ws>>}

\* what the user can type into the article input
ValidUrl == "https://example.com/article"
ArticleUrls == {"", ValidUrl, "not a url"}

\* the first model of each integrator's list
modelMapper(i) == IF i = "openai" THEN {"gpt-4o-mini"}
                  ELSE {"meta-llama/Meta-Llama-3.1-405B-Instruct-Turbo"}

SuggestionsHeader == <<W("Suggested Articles:")>>

\* the error envelope [{"message":"rate limited"}]
RateLimitedBody ==
    <<P("["), P("{"), S("message"), P(":"), S("rate limited"), P("}"), P("]")>>

\* decoded fragments a response body can arrive in
Fragments == {<<W("a")>>, <<W("b")>>}
Statuses == {200, 500}
FragmentsOf(status) == IF status = 200 THEN Fragments ELSE {RateLimitedBody}

(***************************************************************************)
(* JavaScript values: a tag t and a payload v, always a sequence.  The     *)
(* payload of a string is its text, of a number or a boolean its one       *)
(* lexeme, of an array its elements, of an object its members [key, val].  *)
(***************************************************************************)
JUndef == [t |-> "undefined", v |-> << >>]
JNull == [t |-> "null", v |-> << >>]
JBool(b) == [t |-> "boolean", v |-> <<L(IF b THEN "true" ELSE "false")>>]
JNum(n) == [t |-> "number", v |-> <<N(n)>>]
JStr(text) == [t |-> "string", v |-> text]
JArr(elems) == [t |-> "array", v |-> elems]
JObj(members) == [t |-> "object", v |-> members]
Member(key, val) == [key |-> key, val |-> val]

\* new Error(message)
Error(text) == JObj(<<Member("message", JStr(text))>>)

\* the outcome of an evaluation that may throw
Returns(val) == [throws |-> FALSE, val |-> val]
Throws(what) == [throws |-> TRUE, val |-> JStr(<<W(what)>>)]

\* ToBoolean
Truthy(x) ==
    CASE x.t \in {"undefined", "null"} -> FALSE
      [] x.t = "boolean" -> x.v = <<L("true")>>
      [] x.t = "number" -> x.v # <<N("0")>>
      [] x.t = "string" -> x.v # << >>
      [] OTHER -> TRUE

\* the value of the last member of an object with this key
RECURSIVE Lookup(_, _, _)
Lookup(members, key, i) ==
    IF i = 0 THEN JUndef
    ELSE IF members[i].key = key THEN members[i].val
    ELSE Lookup(members, key, i - 1)

\* x[key] for a key that is no index and no built-in property
GetProp(x, key) ==
    CASE x.t \in {"undefined", "null"} -> Throws("TypeError")
      [] x.t = "object" -> Returns(Lookup(x.v, key, Len(x.v)))
      [] OTHER -> Returns(JUndef)

\* ToString of a primitive
ToText(x) ==
    CASE x.t = "string" -> x.v
      [] x.t \in {"number", "boolean"} -> x.v
      [] x.t \in {"undefined", "null"} -> <<L(x.t)>>
      [] OTHER -> <<W("[object Object]")>>

(***************************************************************************)
(* JSON.parse and JSON.stringify over texts.                               *)
(***************************************************************************)
\* the characters between the quotes of a string literal
Unquote(tk) == IF tk.v = "" THEN EmptyText ELSE <<W(tk.v)>>
Quote(text) == IF text = EmptyText THEN S("") ELSE S(text[1].v)

RECURSIVE SkipWs(_, _)
SkipWs(toks, i) ==
    IF i <= Len(toks) /\ toks[i].k = "ws" THEN SkipWs(toks, i + 1) ELSE i

At(toks, i, tk) == i <= Len(toks) /\ toks[i] = tk

ParseOk(val, next) == [ok |-> TRUE, val |-> val, next |-> next]
ParseFail == [ok |-> FALSE, val |-> JUndef, next |-> 0]

RECURSIVE ParseValue(_, _)
RECURSIVE ParseElements(_, _, _)
RECURSIVE ParseMembers(_, _, _)

ParseValue(toks, i0) ==
    LET i == SkipWs(toks, i0) IN
    IF i > Len(toks) THEN ParseFail
    ELSE LET tk == toks[i] IN
         CASE tk.k = "str" -> ParseOk(JStr(Unquote(tk)), i + 1)
           [] tk.k = "num" -> ParseOk(JNum(tk.v), i + 1)
           [] tk.k = "lit" ->
                ParseOk(IF tk.v = "null" THEN JNull ELSE JBool(tk.v = "true"), i + 1)
           [] tk = P("[") ->
                LET j == SkipWs(toks, i + 1) IN
                IF At(toks, j, P("]")) THEN ParseOk(JArr(<< >>), j + 1)
                ELSE ParseElements(toks, i + 1, << >>)
           [] tk = P("{") ->
                LET j == SkipWs(toks, i + 1) IN
                IF At(toks, j, P("}")) THEN ParseOk(JObj(<< >>), j + 1)
                ELSE ParseMembers(toks, i + 1, << >>)
           [] OTHER -> ParseFail

ParseElements(toks, i, acc) ==
    LET r == ParseValue(toks, i) IN
    IF ~r.ok THEN ParseFail
    ELSE LET j == SkipWs(toks, r.next) IN
         IF At(toks, j, P(",")) THEN ParseElements(toks, j + 1, Append(acc, r.val))
         ELSE IF At(toks, j, P("]")) THEN ParseOk(JArr(Append(acc, r.val)), j + 1)
         ELSE ParseFail

ParseMembers(toks, i, acc) ==
    LET j == SkipWs(toks, i)
        c == SkipWs(toks, j + 1)
    IN
    IF ~(j <= Len(toks) /\ toks[j].k = "str" /\ At(toks, c, P(":"))) THEN ParseFail
    ELSE LET r == ParseValue(toks, c + 1) IN
         IF ~r.ok THEN ParseFail
         ELSE LET n == SkipWs(toks, r.next)
                  m == Append(acc, Member(toks[j].v, r.val))
              IN
              IF At(toks, n, P(",")) THEN ParseMembers(toks, n + 1, m)
              ELSE IF At(toks, n, P("}")) THEN ParseOk(JObj(m), n + 1)
              ELSE ParseFail

\* JSON.parse(text): the value, or a SyntaxError
JSONparse(text) ==
    LET r == ParseValue(text, 1) IN
    IF r.ok /\ SkipWs(text, r.next) > Len(text) THEN Returns(r.val)
    ELSE Throws("SyntaxError")

RECURSIVE JSONstringify(_)
RECURSIVE StringifyElements(_, _)
RECURSIVE StringifyMembers(_, _)

\* JSON.stringify(x) of a value built of strings, numbers, null, arrays, objects
JSONstringify(x) ==
    CASE x.t = "string" -> <<Quote(x.v)>>
      [] x.t \in {"number", "boolean"} -> x.v
      [] x.t = "array" -> <<P("[")>> \o StringifyElements(x.v, 1) \o <<P("]")>>
      [] x.t = "object" -> <<P("{")>> \o StringifyMembers(x.v, 1) \o <<P("}")>>
      [] OTHER -> <<L("null")>>

StringifyElements(elems, i) ==
    IF i > Len(elems) THEN << >>
    ELSE JSONstringify(elems[i])
         \o (IF i < Len(elems) THEN <<P(",")>> ELSE << >>)
         \o StringifyElements(elems, i + 1)

StringifyMembers(members, i) ==
    IF i > Len(members) THEN << >>
    ELSE <<S(members[i].key), P(":")>> \o JSONstringify(members[i].val)
         \o (IF i < Len(members) THEN <<P(",")>> ELSE << >>)
         \o StringifyMembers(members, i + 1)

(***************************************************************************)
(* extractErrorMessage                                                     *)
(***************************************************************************)
GenericMessage == <<W("Something went wrong")>>

\* error.message || "Something went wrong"
OwnMessage(m) == IF Truthy(m) THEN m ELSE JStr(GenericMessage)

\* a try block that takes the first element's message field whatever it holds
FirstMessage_AnyMessage(message) ==
    LET parsed == JSONparse(ToText(message)) IN
    IF parsed.throws THEN message
    ELSE IF parsed.val.t = "array" /\ Len(parsed.val.v) > 0
         THEN LET first == GetProp(parsed.val.v[1], "message") IN
              IF first.throws THEN message ELSE first.val
         ELSE message

\* a catch block that falls back to the generic string
FirstMessage_CatchGeneric(message) ==
    LET parsed == JSONparse(ToText(message)) IN
    IF parsed.throws THEN JStr(GenericMessage)
    ELSE IF parsed.val.t = "array" /\ Len(parsed.val.v) > 0
         THEN LET first == GetProp(parsed.val.v[1], "message") IN
              IF first.throws THEN message
              ELSE IF Truthy(first.val) THEN first.val ELSE message
         ELSE message

\* the try block: the replacement of message, or message itself
FirstMessage(message) ==
    LET parsed == JSONparse(ToText(message)) IN
    IF parsed.throws THEN message
    ELSE IF parsed.val.t = "array" /\ Len(parsed.val.v) > 0
         THEN LET first == GetProp(parsed.val.v[1], "message") IN
              IF first.throws THEN message
              ELSE IF Truthy(first.val) THEN first.val ELSE message
         ELSE message

extractErrorMessage(err) ==
    LET m == GetProp(err, "message") IN
    IF m.throws THEN m
    ELSE Returns(FirstMessage(OwnMessage(m.val)))


(***************************************************************************)
(* State after construction.                                               *)
(***************************************************************************)
NoRequest == [endpoint |-> "none"]

\* an exchange before its first submit
IdleExchange ==
    [pc |-> "idle", req |-> NoRequest, status |-> 0, fullResponse |-> EmptyText,
     card |-> 0, frags |-> << >>, chunks |-> << >>, caught |-> JUndef]

NoFailure == [kind |-> "none", err |-> JUndef]
NotApplied == [throws |-> FALSE, val |-> JUndef, done |-> FALSE]

InitSettings ==
    /\ articleUrl = ""
    /\ articleTitle = ""
    /\ integrator = "openai"
    /\ userQuery = EmptyText
    /\ model = ""

InitChat ==
    /\ conversations = << >>
    /\ chatLoading = FALSE
    /\ suggestionsLoading = FALSE
    /\ mounted = TRUE
    /\ ex = [k \in Kinds |-> IdleExchange]
    /\ outcome = << >>

InitProcess ==
    /\ loading = FALSE
    /\ error = JStr(EmptyText)
    /\ proc = [pc |-> "idle", req |-> NoRequest]
    /\ cacheReq = NoRequest

Init ==
    /\ InitSettings
    /\ InitChat
    /\ InitProcess
    /\ xErr = NoFailure
    /\ xOut = NotApplied

(***************************************************************************)
(* Settings edited from the inputs of the two panels.                      *)
(***************************************************************************)
\* the chat input's onChange; the input is disabled while chatLoading
setUserQuery(q) ==
    /\ mounted
    /\ ~chatLoading
    /\ q # userQuery
    /\ userQuery' = q
    /\ UNCHANGED <<articleUrl, articleTitle, integrator, model>>
    /\ UNCHANGED <<chatVars, processVars, extractVars>>

\* an article input whose edit reaches the requests in flight
setArticleUrl_Live(u) ==
    /\ ~loading
    /\ u # articleUrl
    /\ articleUrl' = u
    /\ ex' = [k \in Kinds |->
                IF ex[k].pc \in {"dispatched", "streaming"}
                THEN [ex[k] EXCEPT !.req.url = u] ELSE ex[k]]
    /\ UNCHANGED <<articleTitle, integrator, userQuery, model>>
    /\ UNCHANGED <<conversations, chatLoading, suggestionsLoading, mounted, outcome>>
    /\ UNCHANGED <<processVars, extractVars>>

\* the article input's onChange; the input is disabled while loading
setArticleUrl(u) ==
    /\ ~loading
    /\ u # articleUrl
    /\ articleUrl' = u
    /\ UNCHANGED <<articleTitle, integrator, userQuery, model>>
    /\ UNCHANGED <<chatVars, processVars, extractVars>>

\* the model list's onChange; the list is disabled while there is no article
setModel(m) ==
    /\ articleUrl # ""
    /\ m \in modelMapper(integrator)
    /\ m # model
    /\ model' = m
    /\ UNCHANGED <<articleUrl, articleTitle, integrator, userQuery>>
    /\ UNCHANGED <<chatVars, processVars, extractVars>>

(***************************************************************************)
(* AIChat                                                                  *)
(***************************************************************************)
Card(userContent) ==
    [user |-> [role |-> "user", content |-> userContent],
     assistant |-> [role |-> "assistant", content |-> EmptyText]]

\* an updater that writes the streamed text under the user's role
onChunk_UserRole(prev, partialResponse) ==
    IF prev = << >> THEN prev
    ELSE [prev EXCEPT ![Len(prev)] =
             [user |-> prev[Len(prev)].user,
              assistant |-> [role |-> "user", content |-> partialResponse]]]

\* the updater of onChunk: the assistant message of the last card replaced
onChunk(prev, partialResponse) ==
    IF prev = << >> THEN prev
    ELSE [prev EXCEPT ![Len(prev)] =
             [user |-> prev[Len(prev)].user,
              assistant |-> [role |-> "assistant", content |-> partialResponse]]]

\* fullResponse = chunk: the fragment alone is kept
Accumulate_Delta(fullResponse, chunk) == chunk

\* fullResponse += chunk
Accumulate(fullResponse, chunk) == fullResponse \o chunk

\* setChatLoading / setSuggestionsLoading; no effect once AIChat is unmounted
SetLoading(k, b) ==
    /\ chatLoading' = IF mounted /\ k = "chat" THEN b ELSE chatLoading
    /\ suggestionsLoading' =
          IF mounted /\ k = "suggestions" THEN b ELSE suggestionsLoading
    /\ UNCHANGED mounted

\* the submit of kind k dispatched: card appended, request issued
Dispatch(k, userContent, request) ==
    /\ SetLoading(k, TRUE)
    /\ conversations' = Append(conversations, Card(userContent))
    /\ outcome' = Append(outcome, [st |-> "inflight", text |-> EmptyText])
    /\ ex' = [ex EXCEPT ![k] = [IdleExchange EXCEPT !.pc = "dispatched",
                                   !.req = request,
                                   !.card = Len(conversations) + 1]]

\* disabled of the chat input and of the submit button
ChatSubmitDisabled == chatLoading

\* the chat form's onSubmit
handleSubmit ==
    /\ mounted
    /\ ~ChatSubmitDisabled
    /\ Len(conversations) < MaxCards
    /\ LET userMessage == trim(userQuery) IN
       IF userMessage = EmptyText THEN UNCHANGED vars
       ELSE /\ userQuery' = EmptyText
            /\ Dispatch("chat", userMessage,
                        [endpoint |-> "/api/retrieve-chat", url |-> articleUrl,
                         query |-> userMessage, integrator |-> integrator,
                         model |-> model])
            /\ UNCHANGED <<articleUrl, articleTitle, integrator, model>>
            /\ UNCHANGED <<processVars, extractVars>>

\* a Suggestions button rendered for every integrator
SuggestionsRendered_AnyIntegrator == articleTitle # ""

\* the Suggestions button is rendered for openai with an article title
SuggestionsRendered == integrator = "openai" /\ articleTitle # ""

\* disabled of the Suggestions button
SuggestionsDisabled == chatLoading \/ suggestionsLoading \/ articleUrl = ""

SuggestionsEnabled == SuggestionsRendered /\ ~SuggestionsDisabled

handleSuggestArticles ==
    /\ mounted
    /\ SuggestionsEnabled
    /\ Len(conversations) < MaxCards
    /\ IF articleUrl = "" THEN UNCHANGED vars
       ELSE /\ Dispatch("suggestions", SuggestionsHeader,
                        [endpoint |-> "/api/suggest-articles", url |-> articleUrl,
                         integrator |-> integrator])
            /\ UNCHANGED <<settingsVars, processVars, extractVars>>

\* a handler that resets its loading flag after the await, not in finally
Settle_ResetOnSuccess(k, pc, caught) ==
    /\ SetLoading(k, pc # "completed")
    /\ ex' = [ex EXCEPT ![k] = [IdleExchange EXCEPT !.pc = pc, !.caught = caught,
                                                    !.card = ex[k].card]]
    /\ outcome' = [outcome EXCEPT ![ex[k].card] =
                      [st |-> pc, text |-> ex[k].fullResponse]]

\* catch and finally of the handler of kind k; the locals of the call end here
Settle(k, pc, caught) ==
    /\ SetLoading(k, FALSE)
    /\ ex' = [ex EXCEPT ![k] = [IdleExchange EXCEPT !.pc = pc, !.caught = caught,
                                                    !.card = ex[k].card]]
    /\ outcome' = [outcome EXCEPT ![ex[k].card] =
                      [st |-> pc, text |-> ex[k].fullResponse]]

\* response.ok
ResponseOk(status) == status \in 200..299

\* fetch resolves with a response of some status, with or without a body
fetchResponds(k, status, hasBody) ==
    /\ ex[k].pc = "dispatched"
    /\ IF hasBody
       THEN /\ ex' = [ex EXCEPT ![k].pc = "streaming", ![k].status = status]
            /\ UNCHANGED <<chatLoading, suggestionsLoading, mounted, outcome>>
       ELSE Settle(k, "failed", Error(<<W("No streaming body in response")>>))
    /\ UNCHANGED conversations
    /\ UNCHANGED <<settingsVars, processVars, extractVars>>

\* a handler that takes its card back when the request fails
fetchRejects_Rollback(k) ==
    /\ ex[k].pc = "dispatched"
    /\ Settle(k, "failed", Error(<<W("Failed to fetch")>>))
    /\ conversations' = SubSeq(conversations, 1, Len(conversations) - 1)
    /\ UNCHANGED <<settingsVars, processVars, extractVars>>

\* fetch rejects: no response
fetchRejects(k) ==
    /\ ex[k].pc = "dispatched"
    /\ Settle(k, "failed", Error(<<W("Failed to fetch")>>))
    /\ UNCHANGED conversations
    /\ UNCHANGED <<settingsVars, processVars, extractVars>>

\* the next fragment of the body, as the stream iterator yields it
streamAsyncIterator(k, chunk) ==
    /\ ex[k].pc = "streaming"
    /\ Len(ex[k].frags) < MaxFragments
    /\ chunk \in FragmentsOf(ex[k].status)

\* one turn of the for await loop
streamRead(k, chunk) ==
    /\ streamAsyncIterator(k, chunk)
    /\ LET full == Accumulate(ex[k].fullResponse, chunk) IN
       /\ ex' = [ex EXCEPT ![k].fullResponse = full,
                           ![k].frags = Append(@, chunk),
                           ![k].chunks = Append(@, full)]
       /\ conversations' = IF mounted THEN onChunk(conversations, full)
                           ELSE conversations
    /\ UNCHANGED <<chatLoading, suggestionsLoading, mounted, outcome>>
    /\ UNCHANGED <<settingsVars, processVars, extractVars>>

\* the body ends: fullResponse returned
streamEnds(k) ==
    /\ ex[k].pc = "streaming"
    /\ Settle(k, "completed", JUndef)
    /\ UNCHANGED conversations
    /\ UNCHANGED <<settingsVars, processVars, extractVars>>

\* a read of the body fails
streamFails(k) ==
    /\ ex[k].pc = "streaming"
    /\ Settle(k, "failed", Error(<<W("network error")>>))
    /\ UNCHANGED conversations
    /\ UNCHANGED <<settingsVars, processVars, extractVars>>

\* AIChat is unmounted: it has no cleanup, the exchanges in flight go on
unmount ==
    /\ mounted
    /\ mounted' = FALSE
    /\ UNCHANGED <<conversations, chatLoading, suggestionsLoading, ex, outcome>>
    /\ UNCHANGED <<settingsVars, processVars, extractVars>>

(***************************************************************************)
(* ArticleProcess                                                          *)
(***************************************************************************)
Titles == {"An article"}

\* z.string().url()
IsUrl(u) == u = ValidUrl

\* the issues of the ZodError the validator throws for a url that is none
ZodIssues ==
    JArr(<<JObj(<<Member("validation", JStr(<<W("url")>>)),
                  Member("code", JStr(<<W("invalid_string")>>)),
                  Member("message", JStr(<<W("Please enter a valid URL")>>)),
                  Member("path", JArr(<<JStr(<<W("url")>>)>>))>>)>>)

\* errorResponse.error of a response that is not ok
BackendErrors == {JUndef, JStr(<<W("Could not scrape the article")>>)}

\* errorResponse.error || 'Failed to process article'
ProcessFailure(e) ==
    Error(IF Truthy(e) THEN ToText(e) ELSE <<W("Failed to process article")>>)

\* the Analyze button: disabled while loading or without an article url
startProcessing ==
    /\ ~loading
    /\ articleUrl # ""
    /\ loading' = TRUE
    /\ proc' = [pc |-> "processing",
                req |-> [endpoint |-> "/api/process-article", url |-> articleUrl,
                         integrator |-> integrator]]
    /\ UNCHANGED <<error, cacheReq>>
    /\ UNCHANGED <<settingsVars, chatVars, extractVars>>

\* processArticle resolves: the title is set
processResolves(title) ==
    /\ proc.pc = "processing"
    /\ IsUrl(proc.req.url)
    /\ articleTitle' = title
    /\ loading' = FALSE
    /\ proc' = [proc EXCEPT !.pc = "idle"]
    /\ UNCHANGED <<error, cacheReq>>
    /\ UNCHANGED <<articleUrl, integrator, userQuery, model>>
    /\ UNCHANGED <<chatVars, extractVars>>

\* the catch block: setError(extractErrorMessage(error)), then finally
Rejected(failure) ==
    /\ LET r == extractErrorMessage(failure) IN
       error' = IF r.throws THEN error ELSE r.val
    /\ loading' = FALSE
    /\ proc' = [proc EXCEPT !.pc = "idle"]
    /\ UNCHANGED cacheReq
    /\ UNCHANGED <<settingsVars, chatVars, extractVars>>

\* processArticle rejects: the validator's ZodError, or a response not ok
processRejects(e) ==
    /\ proc.pc = "processing"
    /\ IF IsUrl(proc.req.url)
       THEN Rejected(ProcessFailure(e))
       ELSE Rejected(Error(JSONstringify(ZodIssues)))

\* the timer of the error effect fires
errorTimer ==
    /\ Truthy(error)
    /\ error' = JStr(EmptyText)
    /\ UNCHANGED <<loading, proc, cacheReq>>
    /\ UNCHANGED <<settingsVars, chatVars, extractVars>>

\* a change of integrator that clears the cache of the integrator selected
handleIntegratorChange_NewValue(newIntegrator) ==
    /\ articleUrl = ""
    /\ newIntegrator # integrator
    /\ integrator' = newIntegrator
    /\ cacheReq' = [endpoint |-> "/api/clear-cache", integrator |-> newIntegrator]
    /\ UNCHANGED <<loading, error, proc>>
    /\ UNCHANGED <<articleUrl, articleTitle, userQuery, model>>
    /\ UNCHANGED <<chatVars, extractVars>>

\* the integrator list's onChange; the list is disabled once there is a url
handleIntegratorChange(newIntegrator) ==
    /\ articleUrl = ""
    /\ newIntegrator # integrator
    /\ integrator' = newIntegrator
    /\ cacheReq' = [endpoint |-> "/api/clear-cache", integrator |-> integrator]
    /\ UNCHANGED <<loading, error, proc>>
    /\ UNCHANGED <<articleUrl, articleTitle, userQuery, model>>
    /\ UNCHANGED <<chatVars, extractVars>>

\* the effect on availableOptions: the only available integrator is selected
integratorEffect(option) ==
    /\ option # integrator
    /\ integrator' = option
    /\ UNCHANGED <<articleUrl, articleTitle, userQuery, model>>
    /\ UNCHANGED <<chatVars, processVars, extractVars>>

(***************************************************************************)
(* extractErrorMessage applied to one failure value.                       *)
(***************************************************************************)
MaxArrayLen == 2

Msg(val) == JObj(<<Member("message", val)>>)

\* elements an error envelope can hold
Elements ==
    {JNull, JNum("5"), JStr(<<W("x")>>), JObj(<< >>), JArr(<< >>),
     Msg(JStr(<<W("rate limited")>>)), Msg(JStr(EmptyText)), Msg(JNull), Msg(JNum("0")),
     JObj(<<Member("error", JStr(<<W("bad gateway")>>))>>),
     JObj(<<Member("code", JStr(<<W("invalid_string")>>)),
            Member("message", JStr(<<W("Please enter a valid URL")>>))>>)}

\* bodies: a list of elements, or one element alone
JsonValues == {JArr(a) : a \in SeqsUpTo(Elements, MaxArrayLen)} \cup Elements

\* a text with white space after each lexeme, as an indented rendering has
RECURSIVE Spaced(_)
Spaced(text) ==
    IF text = << >> THEN << >> ELSE <<Head(text), Ws>> \o Spaced(Tail(text))

\* a text cut short by one lexeme
Truncated(text) == SubSeq(text, 1, Len(text) - 1)

PlainTexts == {<<W("Failed to fetch")>>, <<W("rate"), Ws, W("limited")>>,
               <<W("Failed to process article")>>}

\* the failure values the classifier is given: kind and src tell how err was built
Failures ==
    {[kind |-> "json", src |-> v, err |-> Error(JSONstringify(v))] : v \in JsonValues}
    \cup {[kind |-> "spaced", src |-> v, err |-> Error(Spaced(JSONstringify(v)))] :
             v \in JsonValues}
    \cup {[kind |-> "truncated", src |-> v, err |-> Error(Truncated(JSONstringify(v)))] :
             v \in JsonValues}
    \cup {[kind |-> "plain", src |-> JUndef, err |-> Error(text)] : text \in PlainTexts}
    \cup {[kind |-> "nomessage", src |-> JUndef, err |-> e] :
             e \in {Error(EmptyText), JObj(<< >>), JStr(<<W("thrown text")>>)}}
    \cup {[kind |-> "absent", src |-> JUndef, err |-> e] : e \in {JUndef, JNull}}

InitExtract ==
    /\ InitSettings
    /\ InitChat
    /\ InitProcess
    /\ xErr \in Failures
    /\ xOut = NotApplied

\* the call extractErrorMessage(error)
extractApply ==
    /\ xErr.kind # "none"
    /\ ~xOut.done
    /\ LET r == extractErrorMessage(xErr.err) IN
       xOut' = [throws |-> r.throws, val |-> r.val, done |-> TRUE]
    /\ UNCHANGED xErr
    /\ UNCHANGED <<settingsVars, chatVars, processVars>>

SpecExtract == InitExtract /\ [][extractApply]_vars

(***************************************************************************)
(* The session: both panels, with the integrator and the model left as     *)
(* they are at start, an article url that is empty or valid, and a backend *)
(* that gives no reason when it fails to process the article.              *)
(***************************************************************************)
ChatNext ==
    \/ handleSubmit
    \/ handleSuggestArticles
    \/ \E k \in Kinds, status \in Statuses, hasBody \in BOOLEAN :
          fetchResponds(k, status, hasBody)
    \/ \E k \in Kinds : fetchRejects(k)
    \/ \E k \in Kinds, chunk \in Fragments \cup {RateLimitedBody} : streamRead(k, chunk)
    \/ \E k \in Kinds : streamEnds(k)
    \/ \E k \in Kinds : streamFails(k)

Next ==
    \/ \E q \in Queries : setUserQuery(q)
    \/ \E u \in {"", ValidUrl} : setArticleUrl(u)
    \/ ChatNext
    \/ startProcessing
    \/ \E title \in Titles : processResolves(title)
    \/ \E e \in {JUndef} : processRejects(e)
    \/ errorTimer

Spec == Init /\ [][Next]_vars

(***************************************************************************)
(* The chat panel alone: the settings as the article panel can leave them, *)
(* one query typed, then submits and their streams.                        *)
(***************************************************************************)
InitStream ==
    /\ articleUrl \in {"", ValidUrl}
    /\ articleTitle \in {""} \cup Titles
    /\ integrator = "openai"
    /\ userQuery \in Queries
    /\ model = ""
    /\ InitChat
    /\ InitProcess
    /\ xErr = NoFailure
    /\ xOut = NotApplied

SpecStream == InitStream /\ [][ChatNext]_vars

(***************************************************************************)
(* The chat panel with the settings edited under it: the query, the url,   *)
(* the integrator and the model change while exchanges are in flight.      *)
(***************************************************************************)
SettingsNext ==
    \/ \E q \in Queries : setUserQuery(q)
    \/ \E u \in {"", ValidUrl} : setArticleUrl(u)
    \/ \E m \in modelMapper(integrator) : setModel(m)
    \/ \E i \in Integrators : handleIntegratorChange(i)
    \/ \E option \in Integrators : integratorEffect(option)
    \/ ChatNext

SpecSettings == InitStream /\ [][SettingsNext]_vars

(***************************************************************************)
(* The chat panel unmounted at any moment.                                 *)
(***************************************************************************)
UnmountNext ==
    \/ ChatNext
    \/ unmount

SpecUnmount == InitStream /\ [][UnmountNext]_vars

(***************************************************************************)
(* The article panel alone, with every url, integrator, model and backend  *)
(* answer.                                                                 *)
(***************************************************************************)
PanelNext ==
    \/ \E u \in ArticleUrls : setArticleUrl(u)
    \/ \E m \in modelMapper(integrator) : setModel(m)
    \/ \E i \in Integrators : handleIntegratorChange(i)
    \/ startProcessing
    \/ \E title \in Titles : processResolves(title)
    \/ \E e \in BackendErrors : processRejects(e)
    \/ errorTimer

SpecPanel == Init /\ [][PanelNext]_vars

(***************************************************************************)
(* Properties.                                                             *)
(***************************************************************************)
RECURSIVE Concat(_)
Concat(fs) == IF fs = << >> THEN EmptyText ELSE Head(fs) \o Concat(Tail(fs))

InFlight(k) == ex[k].pc \in {"dispatched", "streaming"}

\* a step in which the handler of kind k appends its card and issues its request
Dispatches(k) == ex[k].pc # "dispatched" /\ ex'[k].pc = "dispatched"

\* a step in which the stream of kind k delivers a fragment to onChunk
Reads(k) == Len(ex'[k].frags) > Len(ex[k].frags)

\* a step in which the stream of kind k ends and fullResponse is returned
Completes(k) == ex[k].pc = "streaming" /\ ex'[k].pc = "completed"

\* C1: for the fragments f1..fn a stream has delivered, onChunk has been called
\* n times, its i-th argument is f1+...+fi, and when the stream ends the value
\* returned is f1+...+fn (the empty string, and no call, for n = 0).
C1_Aggregation ==
    [][\A k \in Kinds :
         /\ Len(ex'[k].chunks) = Len(ex'[k].frags)
         /\ \A i \in 1..Len(ex'[k].chunks) :
               ex'[k].chunks[i] = Concat(SubSeq(ex'[k].frags, 1, i))
         /\ Completes(k) =>
               /\ outcome'[ex[k].card].text = Concat(ex[k].frags)
               /\ Len(ex[k].chunks) = Len(ex[k].frags)]_vars

C1_Witness ==
    \E i \in 1..Len(outcome) :
        /\ outcome[i].st = "completed"
        /\ outcome[i].text = <<W("a"), W("b")>>
        /\ conversations[i].assistant.content = <<W("a"), W("b")>>

\* C2: a step taken while the article url is empty appends no card and issues
\* no request.
C2_AsClaimed ==
    [][articleUrl = "" =>
         /\ Len(conversations') = Len(conversations)
         /\ \A k \in Kinds : ~Dispatches(k)]_vars

\* C3: an onChunk update of one exchange changes no card but the one its own
\* submit appended.
C3_AsClaimed ==
    [][\A k \in Kinds :
         Reads(k) =>
            \A i \in 1..Len(conversations) :
                i # ex[k].card => conversations'[i] = conversations[i]]_vars

\* C4: while an exchange is in flight both submit controls are disabled, and
\* at most one exchange is in flight.
C4_AsClaimed ==
    (\E k \in Kinds : InFlight(k)) =>
        /\ ChatSubmitDisabled
        /\ SuggestionsDisabled
        /\ Cardinality({k \in Kinds : InFlight(k)}) <= 1

\* C5: the assistant content of a card whose stream has completed is the text
\* the stream returned, now and in every later state.
C5_AsClaimed ==
    \A i \in 1..Len(outcome) :
        outcome[i].st = "completed" =>
            conversations[i].assistant.content = outcome[i].text


\* c is q without its leading and trailing white space
IsTrimOf(c, q) ==
    /\ c # << >> => c[1].k # "ws" /\ c[Len(c)].k # "ws"
    /\ \E i \in 0..Len(q) :
          /\ i + Len(c) <= Len(q)
          /\ SubSeq(q, i + 1, i + Len(c)) = c
          /\ \A n \in (1..i) \cup ((i + Len(c) + 1)..Len(q)) : q[n].k = "ws"

\* the card a step appends, the cards before it left as they were
Appends(card) ==
    /\ Len(conversations') = Len(conversations) + 1
    /\ SubSeq(conversations', 1, Len(conversations)) = conversations
    /\ conversations'[Len(conversations')] = card

\* C6 as claimed: a dispatched submit appends exactly one card, whose user
\* content is the query exactly as it stood in the input (chat) or the fixed
\* header (suggestions), and no other step changes the length of the log.
C6_AsClaimed ==
    [][/\ Dispatches("chat") => Appends(Card(userQuery))
       /\ Dispatches("suggestions") => Appends(Card(SuggestionsHeader))
       /\ (\A k \in Kinds : ~Dispatches(k)) =>
             Len(conversations') = Len(conversations)]_vars

\* C6, amended: a dispatched submit appends exactly one card, whose user
\* content is the query without its leading and trailing white space (chat) or
\* the fixed header (suggestions), and no other step changes the length of the
\* log.
C6_LogGrowth ==
    [][/\ Dispatches("chat") =>
             /\ Len(conversations') = Len(conversations) + 1
             /\ LET c == conversations'[Len(conversations')].user.content IN
                IsTrimOf(c, userQuery) /\ c # << >> /\ Appends(Card(c))
       /\ Dispatches("suggestions") => Appends(Card(SuggestionsHeader))
       /\ (\A k \in Kinds : ~Dispatches(k)) =>
             Len(conversations') = Len(conversations)]_vars

C6_Witness ==
    /\ Len(conversations) = 2
    /\ \E i, j \in 1..2 :
          /\ conversations[i].user.content = <<W("q")>>
          /\ conversations[j].user.content = SuggestionsHeader
          /\ outcome[i].st = "completed"
          /\ outcome[j].st = "completed"

\* C7: the log only grows at its tail; the user message of a card never
\* changes; a card changes only if it is the last one and the stream of the
\* submit that appended it is in flight.
C7_AsClaimed ==
    [][/\ Len(conversations') >= Len(conversations)
       /\ \A i \in 1..Len(conversations) :
             /\ conversations'[i].user = conversations[i].user
             /\ conversations'[i] # conversations[i] =>
                   i = Len(conversations) /\ outcome[i].st = "inflight"]_vars

\* C8: a response with a non-success status is never streamed, and its body
\* never becomes the assistant content of a card.
C8_AsClaimed ==
    /\ \A k \in Kinds : ex[k].pc = "streaming" => ResponseOk(ex[k].status)
    /\ \A i \in 1..Len(conversations) :
          conversations[i].assistant.content # RateLimitedBody

SameValue(a, b) == a.t = b.t /\ a.v = b.v

\* C9: when an exchange has failed, the error shown is the classifier's string
\* for the failure that was caught.
C9_AsClaimed ==
    \A k \in Kinds :
        ex[k].pc = "failed" =>
            LET r == extractErrorMessage(ex[k].caught) IN
            ~r.throws /\ SameValue(error, r.val)


HasMessage(x) == x.t = "object" /\ \E i \in 1..Len(x.v) : x.v[i].key = "message"
MessageOf(x) == Lookup(x.v, "message", Len(x.v))

\* the failure's message is the rendering of a JSON value
Parses == xErr.kind \in {"json", "spaced"}

\* the failure's own message, or the generic string when it has none
OwnOrGeneric ==
    LET own == GetProp(xErr.err, "message").val IN
    IF Truthy(own) THEN own ELSE JStr(GenericMessage)

\* C10 as claimed: for a body that is a non-empty list of objects that each
\* have a message field the result is the first element's message field;
\* otherwise the failure's own message if it has one; otherwise the generic
\* string.
C10_AsClaimed ==
    (xOut.done /\ xErr.kind # "absent") =>
        /\ ~xOut.throws
        /\ SameValue(xOut.val,
              IF /\ Parses
                 /\ xErr.src.t = "array"
                 /\ Len(xErr.src.v) > 0
                 /\ \A i \in 1..Len(xErr.src.v) : HasMessage(xErr.src.v[i])
              THEN MessageOf(xErr.src.v[1])
              ELSE OwnOrGeneric)

\* the body is a non-empty list whose first element is an object with a
\* message field that is not empty, null or zero
FirstHasMessage ==
    /\ Parses
    /\ xErr.src.t = "array"
    /\ Len(xErr.src.v) > 0
    /\ HasMessage(xErr.src.v[1])
    /\ Truthy(MessageOf(xErr.src.v[1]))

\* C10, amended: for a failure value other than null and undefined, the result
\* is the first element's message field when the failure's message is the JSON
\* text of a non-empty list whose first element is an object with a message
\* field that is not empty, null or zero, whatever the other elements are;
\* otherwise the failure's own message if it is not empty; otherwise the
\* generic string.
C10_FirstMessage ==
    (xOut.done /\ xErr.kind # "absent") =>
        /\ ~xOut.throws
        /\ SameValue(xOut.val,
              IF FirstHasMessage THEN MessageOf(xErr.src.v[1]) ELSE OwnOrGeneric)

C10_Witness ==
    /\ xOut.done
    /\ xErr.kind = "spaced"
    /\ xErr.src = JArr(<<Msg(JStr(<<W("rate limited")>>)), JNum("5")>>)
    /\ xOut.val = JStr(<<W("rate limited")>>)

\* the failure's message is no JSON text
Malformed == xErr.kind \in {"plain", "truncated"}

\* C11 as claimed: for a failure whose message is not parseable as JSON the
\* result is the generic string.
C11_AsClaimed ==
    (xOut.done /\ Malformed) =>
        ~xOut.throws /\ SameValue(xOut.val, JStr(GenericMessage))

\* C11, amended: for a failure whose message is not parseable as JSON the
\* call does not throw and the result is that message unchanged when it is
\* not empty, and the generic string when it is empty.
C11_MalformedKept ==
    (xOut.done /\ Malformed) =>
        /\ ~xOut.throws
        /\ LET own == GetProp(xErr.err, "message").val IN
           IF own.v # EmptyText
           THEN SameValue(xOut.val, own)
           ELSE SameValue(xOut.val, JStr(GenericMessage))

C11_Witness ==
    /\ xOut.done
    /\ xErr.kind = "truncated"
    /\ xErr.src = JArr(<<Msg(JStr(<<W("rate limited")>>))>>)
    /\ xOut.val = JStr(<<P("["), P("{"), S("message"), P(":"), S("rate limited"), P("}")>>)

\* C12: applied to any failure value, absent and null included, the classifier
\* does not throw and its result is a string.
C12_AsClaimed ==
    xOut.done => ~xOut.throws /\ xOut.val.t = "string"

\* a step in which a read of the body of the stream of kind k fails
Fails(k) == ex[k].pc = "streaming" /\ ex'[k].pc = "failed"

\* C13: when the stream of an exchange fails after the fragments f1..fk, the
\* failure reaches the handler, the step calls onChunk no more, the assistant
\* content of the exchange's card is f1+...+fk, and the failed stream delivers
\* nothing later.
C13_AsClaimed ==
    [][\A k \in Kinds :
         /\ Fails(k) =>
               /\ ex'[k].caught # JUndef
               /\ conversations' = conversations
               /\ conversations'[ex[k].card].assistant.content = Concat(ex[k].frags)
         /\ ex[k].pc = "failed" => ~Reads(k)]_vars

\* q is empty or holds white space only
Blank(q) == \A i \in 1..Len(q) : q[i].k = "ws"

\* C14: while the query is empty or white space only and no chat exchange is
\* in flight, no step dispatches a chat exchange: the chat exchange, its
\* request and the chat loading flag stay as they are, and the log changes
\* only by a step of the suggestions exchange.
C14_BlankRejected ==
    [][(Blank(userQuery) /\ ~InFlight("chat")) =>
          /\ ~Dispatches("chat")
          /\ ex'["chat"] = ex["chat"]
          /\ chatLoading' = chatLoading
          /\ ex'["suggestions"] = ex["suggestions"] =>
                conversations' = conversations]_vars

C14_Witness ==
    /\ userQuery = <<Ws>>
    /\ ~ChatSubmitDisabled
    /\ ex["chat"].pc = "idle"
    /\ Len(conversations) = 1
    /\ conversations[1].user.content = SuggestionsHeader
    /\ outcome[1].st = "completed"

\* C15: the request of an exchange holds the settings as they are at the
\* submit; it stays as issued for as long as the exchange is in flight; a step
\* that edits the settings and dispatches nothing leaves every exchange, the
\* log and the fate of every card as they are.
C15_RequestSnapshot ==
    [][\A k \in Kinds :
         /\ Dispatches(k) =>
               /\ ex'[k].req.url = articleUrl
               /\ ex'[k].req.integrator = integrator
               /\ k = "chat" =>
                     /\ ex'[k].req.model = model
                     /\ IsTrimOf(ex'[k].req.query, userQuery)
         /\ (InFlight(k) /\ ex'[k].pc \in {"dispatched", "streaming"}) =>
               ex'[k].req = ex[k].req
         /\ (settingsVars' # settingsVars /\ \A j \in Kinds : ~Dispatches(j)) =>
               /\ ex' = ex
               /\ conversations' = conversations
               /\ outcome' = outcome]_vars

\* an exchange streams under a request that the settings no longer match
C15_Witness ==
    \E k \in Kinds :
        /\ ex[k].pc = "streaming"
        /\ Len(ex[k].frags) = 1
        /\ ex[k].req.url = ValidUrl
        /\ articleUrl = ""
        /\ ex[k].req.integrator # integrator

\* the exchange of kind k holds the reader of its response body
ReaderHeld(k) == ex[k].pc = "streaming"

\* C16: once the chat panel is unmounted no exchange holds a reader: the
\* unmount releases the readers held, and none is taken afterwards.
C16_AsClaimed ==
    ~mounted => \A k \in Kinds : ~ReaderHeld(k)

\* a step in which the processing of an article succeeds for the first time
Succeeds ==
    proc.pc = "processing" /\ proc'.pc = "idle" /\ articleTitle' # articleTitle

\* C17: a step in which the processing of an article succeeds leaves no error
\* message displayed.
C17_AsClaimed ==
    [][Succeeds => error' = JStr(EmptyText)]_vars

\* C18: every request to /api/suggest-articles is the request of a suggestions
\* exchange and carries the integrator openai.
C18_SuggestionsOpenAI ==
    \A k \in Kinds :
        ex[k].req.endpoint = "/api/suggest-articles" =>
            k = "suggestions" /\ ex[k].req.integrator = "openai"

\* a suggestions stream runs while the integrator selected is another one, and
\* the button is gone
C18_Witness ==
    /\ ex["suggestions"].pc = "streaming"
    /\ ex["suggestions"].req.integrator = "openai"
    /\ integrator = "together"
    /\ articleTitle # ""
    /\ ~SuggestionsRendered

\* C19: every card of the log has a user message of role user and an
\* assistant message of role assistant.
C19_Roles ==
    \A i \in 1..Len(conversations) :
        /\ conversations[i].user.role = "user"
        /\ conversations[i].assistant.role = "assistant"

C19_Witness ==
    \E k \in Kinds :
        /\ ex[k].pc = "streaming"
        /\ Len(ex[k].frags) = 2
        /\ Len(conversations) = 2
        /\ conversations[2].assistant = [role |-> "assistant", content |-> ex[k].fullResponse]
        /\ conversations[1].assistant.role = "assistant"

\* C20: a dispatched submit appends its card, with empty assistant content, in
\* the step that issues its request, so that every request in flight has its
\* card in the log; the log never shrinks and no user message changes; a step
\* in which the request or the stream fails leaves the log as it is.
C20_OptimisticAppend ==
    [][/\ Len(conversations') >= Len(conversations)
       /\ \A i \in 1..Len(conversations) :
             conversations'[i].user = conversations[i].user
       /\ \A k \in Kinds :
             /\ Dispatches(k) =>
                   /\ ex'[k].req # NoRequest
                   /\ ex'[k].card = Len(conversations) + 1
                   /\ Len(conversations') = Len(conversations) + 1
                   /\ conversations'[ex'[k].card].assistant.content = EmptyText
             /\ ex'[k].pc \in {"dispatched", "streaming"} =>
                   ex'[k].card \in 1..Len(conversations')
             /\ (InFlight(k) /\ ex'[k].pc = "failed") =>
                   conversations' = conversations]_vars

\* both cards are kept after their exchanges failed, one before any fragment
\* and one after a fragment
C20_Witness ==
    /\ Len(conversations) = 2
    /\ outcome[1].st = "failed"
    /\ outcome[2].st = "failed"
    /\ conversations[1].assistant.content = EmptyText
    /\ conversations[2].assistant.content = <<W("a")>>

\* the loading flag of the exchange of kind k
Loading(k) == IF k = "chat" THEN chatLoading ELSE suggestionsLoading

\* C21: the loading flag of a kind is true exactly while the exchange of that
\* kind is in flight: it is set by the step that dispatches the exchange and
\* is false after the step that ends it, completed or failed; a chat exchange
\* that has ended leaves the chat submit enabled.
C21_LoadingFlag ==
    [][\A k \in Kinds :
         /\ Loading(k) <=> InFlight(k)
         /\ Dispatches(k) => ~Loading(k) /\ Loading(k)'
         /\ (InFlight(k) /\ ex'[k].pc \in {"completed", "failed"}) => ~Loading(k)'
         /\ (k = "chat" /\ ex'[k].pc \in {"completed", "failed"}) =>
               ~ChatSubmitDisabled']_vars

\* a chat exchange has failed and a suggestions exchange has completed, and
\* neither flag is left set
C21_Witness ==
    /\ ex["chat"].pc = "failed"
    /\ ex["suggestions"].pc = "completed"
    /\ ~chatLoading
    /\ ~suggestionsLoading
    /\ ~ChatSubmitDisabled

\* C22: a step that changes the integrator from a to b issues the request
\* to /api/clear-cache with the integrator a, the value before the change.
C22_ClearCacheOldValue ==
    [][integrator' # integrator =>
          /\ cacheReq' = [endpoint |-> "/api/clear-cache", integrator |-> integrator]
          /\ cacheReq'.integrator # integrator']_vars

\* together is selected and the cache of openai was the one cleared
C22_Witness ==
    /\ integrator = "together"
    /\ cacheReq.endpoint = "/api/clear-cache"
    /\ cacheReq.integrator = "openai"


=============================================================================
